---- MODULE Spec2Model ----
(***************************************************************************)
(* Model of acme-widgets (src/main.py): the widget catalog, the delivery   *)
(* charge rule, the special offers and the Basket that composes them.      *)
(*                                                                         *)
(* Money is a whole number of ten-thousandths of a dollar, so 32.95 is     *)
(* Money(32, 95) = 329500.  Every price, fee and threshold of the program  *)
(* is a multiple of 0.005, and so is half of every price, so the sums the  *)
(* program computes are exact in this unit; the extra digit is what the    *)
(* three-decimal formatting of the total rounds away.                      *)
(*                                                                         *)
(* A dict is a sequence of entries in insertion order.  A function of the  *)
(* program that can raise returns a record whose err field is "" or the    *)
(* name of the exception; one that can also change the order-line map      *)
(* returns the map in the field items.                                     *)
(***************************************************************************)
EXTENDS Integers, Sequences, FiniteSets

VARIABLES
    widgets,                \* WidgetCatalog.widgets: code -> Widget
    special_offers_handler, \* Basket.special_offers_handler (present or None)
    items_ordered,          \* Basket.items_ordered: defaultdict, insertion order
    added,                  \* history: codes added with success since the last clear
    last,                   \* history: the most recent call and what it returned
    prev                    \* history: the call before it

vars == <<widgets, special_offers_handler, items_ordered, added, last, prev>>

\* The longest run of successful adds between two clears that is explored.
MaxAdds == 5

\* delivery_charge is called on its own around every multiple of 5.00 up to
\* this many steps of 5.00.
MaxDeliverySteps == 19

Money(units, cents) == units * 10000 + cents * 100

----------------------------------------------------------------------------
(* Widget and WidgetCatalog *)

Widget(description, code, price) ==
    [description |-> description, code |-> code, price |-> price]

\* The widgets get_basket puts in the catalog.
CatalogWidgets ==
    << Widget("Red Widget", "R01", Money(32, 95)),
       Widget("Green Widget", "G01", Money(24, 95)),
       Widget("Blue Widget", "B01", Money(7, 95)) >>

\* The last widget of a code wins, as the loop's assignment does.
populate_catalog(ws) ==
    [c \in {ws[i].code : i \in 1..Len(ws)} |->
        ws[CHOOSE i \in 1..Len(ws) :
              /\ ws[i].code = c
              /\ \A j \in (i + 1)..Len(ws) : ws[j].code # c]]

contains(w, code) == code \in DOMAIN w

NoWidget == Widget("", "", 0)

get(w, code) ==
    IF contains(w, code)
    THEN [err |-> "", widget |-> w[code]]
    ELSE [err |-> "ValueError", widget |-> NoWidget]

----------------------------------------------------------------------------
(* Delivery charge rule *)

delivery_charge_at_fifty(total) ==
    IF total < 0 THEN [err |-> "ValueError", val |-> 0]
    ELSE IF total = 0 THEN [err |-> "", val |-> 0]
    ELSE IF total <= Money(50, 0) THEN [err |-> "", val |-> Money(4, 95)]
    ELSE IF total < Money(90, 0) THEN [err |-> "", val |-> Money(2, 95)]
    ELSE [err |-> "", val |-> 0]

delivery_charge(total) ==
    IF total < 0 THEN [err |-> "ValueError", val |-> 0]
    ELSE IF total = 0 THEN [err |-> "", val |-> 0]
    ELSE IF total < Money(50, 0) THEN [err |-> "", val |-> Money(4, 95)]
    ELSE IF total < Money(90, 0) THEN [err |-> "", val |-> Money(2, 95)]
    ELSE [err |-> "", val |-> 0]

----------------------------------------------------------------------------
(* The order-line map: a defaultdict(lambda: 0) *)

HasKey(items, code) == \E i \in 1..Len(items) : items[i].code = code

KeyIndex(items, code) == CHOOSE i \in 1..Len(items) : items[i].code = code

\* items[code]: a missing key is inserted with the default 0 and then read.
DefaultGet(items, code) ==
    IF HasKey(items, code)
    THEN [val |-> items[KeyIndex(items, code)].count, items |-> items]
    ELSE [val |-> 0, items |-> Append(items, [code |-> code, count |-> 0])]

\* items[code] = count, for a key that is present.
SetItem(items, code, count) ==
    [items EXCEPT ![KeyIndex(items, code)].count = count]

----------------------------------------------------------------------------
(* Special offers *)

red_widget_offer_full_price(items, w) ==
    LET got   == DefaultGet(items, "R01")
        price == get(w, "R01")
    IN  [err   |-> price.err,
         val   |-> (got.val \div 2) * price.widget.price,
         items |-> got.items]

red_widget_offer_flat(items, w) ==
    LET got   == DefaultGet(items, "R01")
        price == get(w, "R01")
    IN  [err   |-> price.err,
         val   |-> price.widget.price \div 2,
         items |-> got.items]

red_widget_offer_apply_func(items, w) ==
    LET got   == DefaultGet(items, "R01")
        price == get(w, "R01")
    IN  [err   |-> price.err,
         val   |-> (got.val \div 2) * (price.widget.price \div 2),
         items |-> got.items]

SpecialOffer(description, apply_func) ==
    [description |-> description, apply_func |-> apply_func]

red_widget_is_cool_offer ==
    SpecialOffer("Buy one red widget, get the second half price",
                 "red_widget_offer_apply_func")

apply(offer, items, w) ==
    CASE offer.apply_func = "red_widget_offer_apply_func" ->
            red_widget_offer_apply_func(items, w)

SpecialOfferHandler(offers) == [present |-> TRUE, offers |-> offers]

NoHandler == [present |-> FALSE, offers |-> <<>>]

RECURSIVE ApplyOffers(_, _, _, _, _)
ApplyOffers(offers, i, total_discount, items, w) ==
    IF i > Len(offers)
    THEN [err |-> "", val |-> total_discount, items |-> items]
    ELSE LET r == apply(offers[i], items, w)
         IN  IF r.err # ""
             THEN [err |-> r.err, val |-> 0, items |-> r.items]
             ELSE ApplyOffers(offers, i + 1, total_discount + r.val, r.items, w)

get_discount(handler, items, w) ==
    IF Len(items) > 0
    THEN ApplyOffers(handler.offers, 1, 0, items, w)
    ELSE [err |-> "", val |-> 0, items |-> items]

----------------------------------------------------------------------------
(* Basket *)

add_unchecked(items, w, widget_code) ==
    LET got == DefaultGet(items, widget_code)
    IN  IF contains(w, widget_code)
        THEN [err |-> "", items |-> SetItem(got.items, widget_code, got.val + 1)]
        ELSE [err |-> "ValueError", items |-> got.items]

add_twice(items, w, widget_code) ==
    IF contains(w, widget_code)
    THEN LET got == DefaultGet(items, widget_code)
         IN  [err |-> "", items |-> SetItem(got.items, widget_code, got.val + 2)]
    ELSE [err |-> "ValueError", items |-> items]

add(items, w, widget_code) ==
    IF contains(w, widget_code)
    THEN LET got == DefaultGet(items, widget_code)
         IN  [err |-> "", items |-> SetItem(got.items, widget_code, got.val + 1)]
    ELSE [err |-> "ValueError", items |-> items]

\* The loop of total over items_ordered.items(), from entry i on.
RECURSIVE SumLines(_, _, _, _)
SumLines(items, w, i, total) ==
    IF i > Len(items)
    THEN [err |-> "", val |-> total]
    ELSE LET g == get(w, items[i].code)
         IN  IF g.err # ""
             THEN [err |-> g.err, val |-> 0]
             ELSE SumLines(items, w, i + 1, total + g.widget.price * items[i].count)

total_charge_before_discount(items, w, handler) ==
    LET s == SumLines(items, w, 1, 0)
    IN  IF s.err # "" THEN [err |-> s.err, val |-> 0, items |-> items]
        ELSE
        LET d == IF handler.present
                 THEN get_discount(handler, items, w)
                 ELSE [err |-> "", val |-> 0, items |-> items]
        IN  IF d.err # "" THEN [err |-> d.err, val |-> 0, items |-> d.items]
            ELSE
            LET c == delivery_charge(s.val)
            IN  IF c.err # "" THEN [err |-> c.err, val |-> 0, items |-> d.items]
                ELSE [err |-> "", val |-> s.val - d.val + c.val, items |-> d.items]

total(items, w, handler) ==
    LET s == SumLines(items, w, 1, 0)
    IN  IF s.err # "" THEN [err |-> s.err, val |-> 0, items |-> items]
        ELSE
        LET d == IF handler.present
                 THEN get_discount(handler, items, w)
                 ELSE [err |-> "", val |-> 0, items |-> items]
        IN  IF d.err # "" THEN [err |-> d.err, val |-> 0, items |-> d.items]
            ELSE
            LET c == delivery_charge(s.val - d.val)
            IN  IF c.err # "" THEN [err |-> c.err, val |-> 0, items |-> d.items]
                ELSE [err |-> "", val |-> s.val - d.val + c.val, items |-> d.items]

clear_keeps_lines(items) == items

clear(items) == << >>

\* str(n) of a natural number, one character per element.
Digit == <<"0", "1", "2", "3", "4", "5", "6", "7", "8", "9">>

RECURSIVE Str(_)
Str(n) == IF n < 10 THEN <<Digit[n + 1]>> ELSE Str(n \div 10) \o <<Digit[(n % 10) + 1]>>

\* "\n".join of f"{description}: {count}" over the entries from i on.
RECURSIVE JoinLines(_, _, _)
JoinLines(items, w, i) ==
    IF i > Len(items) THEN << >>
    ELSE (IF i > 1 THEN <<"\n">> ELSE << >>)
         \o <<get(w, items[i].code).widget.description, ": ">>
         \o Str(items[i].count)
         \o JoinLines(items, w, i + 1)

basket_widgets(items, w) ==
    IF Len(items) > 0 THEN JoinLines(items, w, 1) ELSE <<"[]">>

\* get_basket(): the catalog and the handler of the bootstrapped basket.
get_basket ==
    [catalog |-> populate_catalog(CatalogWidgets),
     special_offers_handler |-> SpecialOfferHandler(<<red_widget_is_cool_offer>>)]

----------------------------------------------------------------------------
(* The display of a total: f"{x:.3f}"[:-1] *)

\* x to the nearest thousandth, ties to even.
RoundThousandths(x) ==
    LET q == x \div 10
        r == x % 10
    IN  IF r > 5 \/ (r = 5 /\ q % 2 = 1) THEN q + 1 ELSE q

Pad3(n) == <<Digit[(n \div 100) + 1], Digit[((n \div 10) % 10) + 1], Digit[(n % 10) + 1]>>

Format3f(x) ==
    LET m == RoundThousandths(IF x < 0 THEN -x ELSE x)
    IN  (IF x < 0 /\ m > 0 THEN <<"-">> ELSE << >>)
        \o Str(m \div 1000) \o <<".">> \o Pad3(m % 1000)

displayed_rounded(x) ==
    LET m == RoundThousandths(IF x < 0 THEN -x ELSE x)
        h == (m + 5) \div 10
    IN  Str(h \div 100) \o <<".">> \o <<Digit[((h \div 10) % 10) + 1], Digit[(h % 10) + 1]>>

displayed(x) == LET s == Format3f(x) IN SubSeq(s, 1, Len(s) - 1)

----------------------------------------------------------------------------
(* The state machine: one basket and the calls made on it *)

Call(op, code, amount, pre, err, val, text) ==
    [op |-> op, code |-> code, amount |-> amount, pre |-> pre,
     err |-> err, val |-> val, text |-> text]

NoCall == Call("none", "", 0, << >>, "", 0, << >>)

\* The codes a caller passes to add: the catalog's and one it does not hold.
AddCodes == {"R01", "G01", "B01", "X99"}

\* The subtotals handed to delivery_charge on its own: each multiple of 5.00
\* from -5.00 on, and the amounts 0.005 below and above it.
DeliveryInputs ==
    {k * Money(5, 0) + f : k \in (-1)..MaxDeliverySteps, f \in {-50, 0, 50}}

\* Basket.__init__: a basket with the get_basket catalog, with or without offers.
Init ==
    /\ widgets = get_basket.catalog
    /\ special_offers_handler \in {get_basket.special_offers_handler, NoHandler}
    /\ items_ordered = << >>
    /\ added = << >>
    /\ last = NoCall
    /\ prev = NoCall

Add(code) ==
    LET r == add(items_ordered, widgets, code)
    IN  /\ r.err = "" => Len(added) < MaxAdds
        /\ items_ordered' = r.items
        /\ added' = IF r.err = "" THEN Append(added, code) ELSE added
        /\ last' = Call("add", code, 0, items_ordered, r.err, 0, << >>)
        /\ prev' = last
        /\ UNCHANGED <<widgets, special_offers_handler>>

Total ==
    LET r == total(items_ordered, widgets, special_offers_handler)
    IN  /\ items_ordered' = r.items
        /\ last' = Call("total", "", 0, items_ordered, r.err, r.val, << >>)
        /\ prev' = last
        /\ UNCHANGED <<widgets, special_offers_handler, added>>

Clear ==
    /\ items_ordered' = clear(items_ordered)
    /\ added' = << >>
    /\ last' = Call("clear", "", 0, items_ordered, "", 0, << >>)
    /\ prev' = last
    /\ UNCHANGED <<widgets, special_offers_handler>>

Widgets ==
    /\ last' = Call("widgets", "", 0, items_ordered, "", 0,
                    basket_widgets(items_ordered, widgets))
    /\ prev' = last
    /\ UNCHANGED <<widgets, special_offers_handler, items_ordered, added>>

Next ==
    \/ \E code \in AddCodes : Add(code)
    \/ Total
    \/ Clear
    \/ Widgets

Spec == Init /\ [][Next]_vars

\* delivery_charge called on its own with each input.
DeliveryCharge(subtotal) ==
    LET r == delivery_charge(subtotal)
    IN  /\ last' = Call("delivery_charge", "", subtotal, items_ordered, r.err, r.val, << >>)
        /\ prev' = last
        /\ UNCHANGED <<widgets, special_offers_handler, items_ordered, added>>

NextDelivery == \E subtotal \in DeliveryInputs : DeliveryCharge(subtotal)

SpecDelivery == Init /\ [][NextDelivery]_vars

----------------------------------------------------------------------------
(* Properties *)

IsGetBasket == special_offers_handler = get_basket.special_offers_handler

\* The quantity held for a code: 0 when the code has no entry.
Qty(items, code) ==
    IF HasKey(items, code) THEN items[KeyIndex(items, code)].count ELSE 0

\* How many times code occurs in a sequence of codes.
Count(seq, code) == Cardinality({i \in 1..Len(seq) : seq[i] = code})

RECURSIVE SumOver(_, _)
SumOver(S, items) ==
    IF S = {} THEN 0
    ELSE LET c == CHOOSE x \in S : TRUE
         IN  widgets[c].price * Qty(items, c) + SumOver(S \ {c}, items)

\* S: the sum of unit price times quantity over the catalog's codes.
Subtotal(items) == SumOver(DOMAIN widgets, items)

\* D: the discount set's total discount, 0 when no discount set is configured.
Discount(items) ==
    IF special_offers_handler.present
    THEN get_discount(special_offers_handler, items, widgets).val
    ELSE 0

\* The row of the delivery table a subtotal falls in.
Tier(t) ==
    IF t < 0 THEN 0
    ELSE IF t = 0 THEN 1
    ELSE IF t < Money(50, 0) THEN 2
    ELSE IF t < Money(90, 0) THEN 3
    ELSE 4

TotalOf(items) == total(items, widgets, special_offers_handler).val

\* C1: add with a code the catalog does not hold fails with ValueError and
\* leaves the order-line map exactly as it was before the call.
C1_AddUnknownFailsAndKeepsLines ==
    (last.op = "add" /\ last.code \notin DOMAIN widgets) =>
        /\ last.err = "ValueError"
        /\ items_ordered = last.pre

C1_Witness ==
    /\ last.op = "add"
    /\ last.code = "X99"
    /\ last.err = "ValueError"
    /\ prev.op = "total"
    /\ Len(last.pre) >= 2

\* C2: the quantity held for each catalog code equals the number of successful
\* adds of that code since the last clear; a successful add raises that one
\* code's quantity by exactly 1 and no other's; no quantity is negative.
C2_QuantitiesCountAdds ==
    /\ \A c \in DOMAIN widgets : Qty(items_ordered, c) = Count(added, c)
    /\ \A i \in 1..Len(items_ordered) : items_ordered[i].count >= 0
    /\ (last.op = "add" /\ last.err = "") =>
          \A c \in DOMAIN widgets :
              Qty(items_ordered, c) =
                  Qty(last.pre, c) + (IF c = last.code THEN 1 ELSE 0)

C2_Witness ==
    /\ last.op = "add"
    /\ last.err = ""
    /\ Qty(last.pre, last.code) = 1
    /\ \E c \in DOMAIN widgets : c # last.code /\ Qty(last.pre, c) >= 1

\* C3: total() returns S - D + deliveryCharge(S - D): the delivery charge is
\* computed on the discounted subtotal.
C3_TotalFormula ==
    last.op = "total" =>
        LET after == Subtotal(last.pre) - Discount(last.pre)
        IN  /\ last.err = ""
            /\ delivery_charge(after).err = ""
            /\ last.val = after + delivery_charge(after).val

C3_Witness ==
    /\ last.op = "total"
    /\ last.err = ""
    /\ Discount(last.pre) > 0
    /\ delivery_charge(Subtotal(last.pre)).val
         # delivery_charge(Subtotal(last.pre) - Discount(last.pre)).val

\* C4: delivery_charge follows the tier table: ValueError below 0, 0 at 0,
\* 4.95 below 50, 2.95 from 50 to below 90, 0 from 90 on.
C4_DeliveryTable ==
    last.op = "delivery_charge" =>
        LET t == last.amount
        IN  /\ (t < 0) => last.err = "ValueError"
            /\ (t >= 0) => last.err = ""
            /\ (t = 0) => last.val = 0
            /\ (0 < t /\ t < 500000) => last.val = 49500
            /\ (500000 <= t /\ t < 900000) => last.val = 29500
            /\ (t >= 900000) => last.val = 0

C4_Witness ==
    /\ last.op = "delivery_charge"
    /\ last.amount = 500000
    /\ last.val = 29500
    /\ prev.op = "delivery_charge"
    /\ prev.amount = 900000
    /\ prev.val = 0

\* C5: on the get_basket basket the displayed total reads 37.85 after B01, G01;
\* 54.37 after R01, R01; 60.85 after R01, G01; 98.27 after B01, B01, R01, R01, R01.
C5_Scenarios ==
    (last.op = "total" /\ IsGetBasket) =>
        /\ added = <<"B01", "G01">> =>
              displayed(last.val) = <<"3", "7", ".", "8", "5">>
        /\ added = <<"R01", "R01">> =>
              displayed(last.val) = <<"5", "4", ".", "3", "7">>
        /\ added = <<"R01", "G01">> =>
              displayed(last.val) = <<"6", "0", ".", "8", "5">>
        /\ added = <<"B01", "B01", "R01", "R01", "R01">> =>
              displayed(last.val) = <<"9", "8", ".", "2", "7">>

C5_Witness ==
    /\ last.op = "total"
    /\ prev.op = "add"
    /\ IsGetBasket
    /\ added = <<"B01", "B01", "R01", "R01", "R01">>
    /\ displayed(last.val) = <<"9", "8", ".", "2", "7">>

\* C6: clear() followed immediately by total() returns exactly 0.
C6_ClearThenTotalIsZero ==
    (last.op = "total" /\ prev.op = "clear") =>
        /\ last.err = ""
        /\ last.val = 0

C6_Witness ==
    /\ last.op = "total"
    /\ prev.op = "clear"
    /\ Len(prev.pre) >= 2
    /\ last.val = 0

\* C7: total() leaves the order-line map of the get_basket basket with the same
\* keys and quantities as before the call, and the catalog unchanged.
C7_TotalKeepsLines ==
    (last.op = "total" /\ IsGetBasket) =>
        /\ items_ordered = last.pre
        /\ widgets = get_basket.catalog

\* The codes of a sequence in the order of their first occurrence.
RECURSIVE FirstAdded(_, _)
FirstAdded(seq, i) ==
    IF i > Len(seq) THEN << >>
    ELSE IF \E j \in 1..(i - 1) : seq[j] = seq[i]
         THEN FirstAdded(seq, i + 1)
         ELSE <<seq[i]>> \o FirstAdded(seq, i + 1)

RECURSIVE ExpectedLines(_, _)
ExpectedLines(codes, i) ==
    IF i > Len(codes) THEN << >>
    ELSE (IF i > 1 THEN <<"\n">> ELSE << >>)
         \o <<widgets[codes[i]].description, ": ">>
         \o Str(Count(added, codes[i]))
         \o ExpectedLines(codes, i + 1)

\* C8: the widgets description of the get_basket basket has one line per
\* distinct code added since the last clear, with its name and positive
\* quantity, in the order of first adds; it is "[]" exactly when none was added.
C8_WidgetsListsAddedCodes ==
    (last.op = "widgets" /\ IsGetBasket) =>
        last.text = IF added = << >>
                    THEN <<"[]">>
                    ELSE ExpectedLines(FirstAdded(added, 1), 1)

\* C9: on the get_basket basket the discount never exceeds the subtotal, so
\* total() never raises and returns a value >= 0.
C9_TotalNeverNegative ==
    IsGetBasket =>
        /\ Discount(items_ordered) <= Subtotal(items_ordered)
        /\ last.op = "total" =>
              /\ last.err = ""
              /\ last.val >= 0
              /\ Discount(last.pre) <= Subtotal(last.pre)

C9_Witness ==
    /\ IsGetBasket
    /\ last.op = "total"
    /\ last.err = ""
    /\ Discount(last.pre) > 0
    /\ Qty(last.pre, "B01") > 0

\* C10: on the get_basket basket, when the discounted subtotal is in the same
\* delivery tier before and after add(c), total() after the add is strictly
\* greater than before, by at least unitPrice(c) minus the discount the add
\* newly unlocks.
C10_AddRaisesTotal ==
    (/\ last.op = "add"
     /\ last.err = ""
     /\ IsGetBasket
     /\ Tier(Subtotal(last.pre) - Discount(last.pre))
          = Tier(Subtotal(items_ordered) - Discount(items_ordered))) =>
        /\ TotalOf(items_ordered) > TotalOf(last.pre)
        /\ TotalOf(items_ordered) - TotalOf(last.pre) >=
              widgets[last.code].price
                - (Discount(items_ordered) - Discount(last.pre))

C10_Witness ==
    /\ last.op = "add"
    /\ last.err = ""
    /\ IsGetBasket
    /\ Discount(items_ordered) > Discount(last.pre)
    /\ Tier(Subtotal(last.pre) - Discount(last.pre))
         = Tier(Subtotal(items_ordered) - Discount(items_ordered))
    /\ TotalOf(items_ordered) > TotalOf(last.pre)

====
